---- MODULE Spec2Model ----
(***************************************************************************)
(* A model of the page-batch OCR pipeline of pdfOCR.js (the pooled-worker  *)
(* pdfToTextOCR and processPageOCRWithWorker) as it runs on the Node.js    *)
(* event loop: every action is the synchronous code between two awaits of  *)
(* one run.  The working directory temp_ocr is one fixed path, shared by   *)
(* every run of the process.                                               *)
(***************************************************************************)
EXTENDS Integers, Sequences, FiniteSets, TLC

(* ------------------------------ bounds -------------------------------- *)

\* Largest page count among the documents that go through the whole pipeline.
MaxPages == 6

\* How many swallowed faults (a page's read or recognition, an unlink, a
\* terminate, an rmdir) the environment injects in one behaviour.
MaxFaults == 2

\* Longest text the normalization is applied to on its own.
MaxLen == 5

(* -------------------------- program constants -------------------------- *)

\* if (pageCount > 30)
PAGE_LIMIT == 30

\* const BATCH_SIZE = 5
BATCH_SIZE == 5

\* const BATCH_SIZE = 8, in the per-page-worker variant
BATCH_SIZE_PER_PAGE == 8

\* limits: { fileSize: 50 * 1024 * 1024 }, in megabytes
FILE_SIZE_LIMIT == 50

\* The runs of pdfToTextOCR in one process (one per POST /extract-text).
Runs == {"A", "B"}

(* ------------------------------ file names ----------------------------- *)

\* A file name "page" ++ "-" ++ <chars> ++ ".jpg" is the sequence of its
\* characters between the prefix and the extension: 0..9 are the digits,
\* any larger number is a character that is not a digit.
IsDigit(c) == c \in 0..9

RECURSIVE DropNonDigits(_)
DropNonDigits(s) ==
    IF s = <<>> \/ IsDigit(Head(s)) THEN s ELSE DropNonDigits(Tail(s))

RECURSIVE TakeDigits(_)
TakeDigits(s) ==
    IF s = <<>> \/ ~IsDigit(Head(s)) THEN <<>>
    ELSE <<Head(s)>> \o TakeDigits(Tail(s))

\* file.match(/\d+/): the first run of digits, <<>> standing for null.
MatchDigits(name) == TakeDigits(DropNonDigits(name))

RECURSIVE ParseInt(_)
ParseInt(ds) ==
    IF ds = <<>> THEN 0 ELSE 10 * ParseInt(SubSeq(ds, 1, Len(ds) - 1)) + ds[Len(ds)]

\* parseInt(a.match(/\d+/)[0])
FileNum(name) == ParseInt(MatchDigits(name))

\* What pdftoppm calls page k of an n-page document: the page number, padded
\* with zeros to the width of n.
Digits(k) == IF k < 10 THEN <<k>> ELSE <<k \div 10, k % 10>>

PageName(k, n) == IF n >= 10 /\ k < 10 THEN <<0, k>> ELSE Digits(k)

\* A rasterizer that names its files with a letter instead of a number.
LetterName(k) == <<9 + k>>

(* -------------------------------- text --------------------------------- *)

\* A text is a sequence of characters, each a string.
Whitespace == {" ", "\n", "\t", "\r"}

\* The characters of s that are not followed by a character of the run they
\* are in, each character of a run shown as a space: what replacing every
\* maximal run of characters of `run' by one space leaves.
ReplaceRuns(s, run) ==
    LET marked == [k \in 1..Len(s) |->
                     [c |-> IF s[k] \in run THEN " " ELSE s[k],
                      drop |-> s[k] \in run /\ k < Len(s) /\ s[k + 1] \in run]]
        left == SelectSeq(marked, LAMBDA m : ~m.drop)
    IN  [k \in 1..Len(left) |-> left[k].c]

\* .replace(/\n+/g, ' ')
ReplaceNewlines(s) == ReplaceRuns(s, {"\n"})

\* Mutant: .replace(/\s\s/g, ' '), every pair of whitespace characters
\* replaced by one space, one pass.
CollapsePairs(s) ==
    LET start(k) == CHOOSE j \in 1..k :
                        /\ \A m \in j..k : s[m] \in Whitespace
                        /\ j = 1 \/ s[j - 1] \notin Whitespace
        odd(k) == s[k] \in Whitespace /\ (k - start(k)) % 2 = 1
        marked == [k \in 1..Len(s) |->
                     [c |-> IF odd(k) THEN " " ELSE s[k],
                      drop |-> /\ s[k] \in Whitespace /\ ~odd(k)
                               /\ k < Len(s) /\ s[k + 1] \in Whitespace]]
        left == SelectSeq(marked, LAMBDA m : ~m.drop)
    IN  [k \in 1..Len(left) |-> left[k].c]

\* .replace(/\s+/g, ' ')
CollapseWhitespace(s) == ReplaceRuns(s, Whitespace)

\* Mutant: .trimStart()
TrimStart(s) ==
    LET ink == {k \in 1..Len(s) : s[k] \notin Whitespace}
    IN  IF ink = {} THEN <<>>
        ELSE SubSeq(s, CHOOSE k \in ink : \A j \in ink : k <= j, Len(s))

\* .trim()
Trim(s) ==
    LET ink == {k \in 1..Len(s) : s[k] \notin Whitespace}
    IN  IF ink = {} THEN <<>>
        ELSE SubSeq(s, CHOOSE k \in ink : \A j \in ink : k <= j,
                       CHOOSE k \in ink : \A j \in ink : k >= j)

\* fullText.replace(/\n+/g, ' ').replace(/\s+/g, ' ').trim()
\* (each call of the chain is applied to the value of the one before it)
CleanText(s) ==
    CHOOSE cleanedText \in
        {Trim(collapsed) :
            collapsed \in {CollapseWhitespace(replaced) :
                replaced \in {ReplaceNewlines(fullText) : fullText \in {s}}}} :
        TRUE

\* texts.join(' ')
RECURSIVE JoinSpace(_)
JoinSpace(ts) ==
    IF ts = <<>> THEN <<>>
    ELSE IF Len(ts) = 1 THEN ts[1]
    ELSE ts[1] \o <<" ">> \o JoinSpace(Tail(ts))

\* What the recognizer reads on an image: the page's own word and the line
\* breaks Tesseract puts around it.  An image is [by |-> the run that
\* rasterized it, or "old" for an earlier interrupted run, page |-> its page].
Word(img) == img.by \o ToString(img.page)

OcrText(img) ==
    IF img.page % 2 = 1 THEN <<Word(img), "\n">>
    ELSE <<" ", Word(img), "\n", "\n">>

(* ------------------------------ results -------------------------------- *)

\* results.sort((a, b) => a.index - b.index): a stable sort.
RECURSIVE InsertByIndex(_, _)
InsertByIndex(sorted, x) ==
    IF sorted = <<>> THEN <<x>>
    ELSE IF sorted[Len(sorted)].index <= x.index THEN Append(sorted, x)
    ELSE Append(InsertByIndex(SubSeq(sorted, 1, Len(sorted) - 1), x),
                sorted[Len(sorted)])

RECURSIVE SortByIndex(_)
SortByIndex(rs) ==
    IF rs = <<>> THEN <<>>
    ELSE InsertByIndex(SortByIndex(SubSeq(rs, 1, Len(rs) - 1)), rs[Len(rs)])

\* results.map(r => r.text)
TextsOf(rs) == [k \in 1..Len(rs) |-> rs[k].text]

\* results.sort(...); results.map(r => r.text).join(' ')
FullText(rs) ==
    CHOOSE fullText \in
        {JoinSpace(texts) :
            texts \in {TextsOf(sorted) :
                sorted \in {SortByIndex(results) : results \in {rs}}}} :
        TRUE

(* ------------------------------- state --------------------------------- *)

VARIABLES
    run,        \* run[r]: the locals and the position of run r of pdfToTextOCR
    dirExists,  \* fs.existsSync(tempDir)
    dirFiles,   \* the files of tempDir: name -> the image in it
    faults,     \* swallowed faults injected so far
    norm,       \* the text normalization of line 131, applied on its own
    req         \* req[r]: the POST /extract-text request that run r serves

vars == <<run, dirExists, dirFiles, faults, norm, req>>

NoImage == [by |-> "none", page |-> 0]

\* The images of an earlier, interrupted 12-page run and a file that is no
\* page image, found in tempDir when a run starts.
OldImage == [by |-> "old", page |-> 7]
JunkName == <<-1>>

\* file.startsWith('page') && file.endsWith('.jpg')
IsPageImage(name) == \A k \in 1..Len(name) : name[k] >= 0

NoFiles == [n \in {} |-> NoImage]

Min(a, b) == IF a < b THEN a ELSE b

Restrict(f, S) == [n \in S |-> f[n]]

\* The subsets of S of at most k elements.
RECURSIVE UpTo(_, _)
UpTo(S, k) ==
    IF k <= 0 THEN {{}}
    ELSE LET smaller == UpTo(S, k - 1)
         IN  smaller \cup {T \cup {x} : T \in smaller, x \in S}

\* The locals of a run that has not started.
FreshRun(pages, position) ==
    [pc |-> position,
     pages |-> pages,        \* what pdfinfo reports for inputPdfPath
     pageCount |-> -1,       \* const pageCount, once pdfinfo has settled
     raster |-> 0,           \* pdftoppm invocations started
     files |-> <<>>,         \* const files
     i |-> 0,                \* the batch loop's i
     task |-> <<>>,          \* the promises of processPageOCRWithWorker
     results |-> <<>>,       \* const results
     made |-> 0,             \* createWorker calls that resolved
     workers |-> <<>>,       \* const workers
     dead |-> {},            \* workers whose terminate() resolved
     t |-> 0,                \* the worker the finally block is terminating
     pend |-> "none",        \* the exception the finally block will rethrow
     err |-> "none",         \* the error thrown to the caller
     cause |-> "none",       \* the error the catch block caught
     ret |-> [text |-> <<>>, pageCount |-> -1],
     written |-> FALSE,      \* outputTxtPath was written
     kept |-> {},            \* files whose deletion threw (swallowed)
     ooo |-> FALSE,          \* a task settled before one of lower index
     foreign |-> {},         \* what the run did to another run's images
     perPage |-> FALSE]      \* the run is a call of the per-page-worker variant

\* The locals of a run of the variant that creates a worker in each task.
FreshPerPage(pages, position) ==
    [FreshRun(pages, position) EXCEPT !.perPage = TRUE]

\* The normalization when no text is given to it on its own.
NoText == [pc |-> "off", fullText |-> <<>>, cleanedText |-> <<>>, again |-> <<>>]

\* An outcome of a step of run r: its locals, the directory, faults used.
Outcome(rec, exists, dfiles, used) ==
    [rec |-> rec, exists |-> exists, files |-> dfiles, used |-> used]

\* A request that was not made: pdfToTextOCR is called directly.
NoRequest ==
    [pc |-> "off",
     field |-> "none",       \* the form field the file part is in
     mimetype |-> "none",    \* file.mimetype
     size |-> 0,             \* the size of the file, in megabytes
     uploaded |-> FALSE,     \* req.file.path exists in uploads/
     output |-> FALSE,       \* outputFilePath exists
     kept |-> {},            \* files whose unlinkSync threw in the catch block
     sent |-> <<>>]          \* the responses sent on res

ApplyRun(r, o) ==
    /\ run' = [run EXCEPT ![r] = o.rec]
    /\ dirExists' = o.exists
    /\ dirFiles' = o.files
    /\ faults' = faults + o.used

Apply(r, o) ==
    /\ ApplyRun(r, o)
    /\ UNCHANGED <<norm, req>>

OthersImages(r, dfiles, names) ==
    {n \in names : dfiles[n].by \in Runs \ {r}}

Mark(rec, what, hit) ==
    IF hit THEN [rec EXCEPT !.foreign = @ \cup {what}] ELSE rec

(* ---------------------- the catch block (144-165) --------------------- *)

\* Mutant: the catch block unlinks nothing.
CatchUnlinkedNothing(all, failing) == {}

\* The files the catch block's unlinkSync calls remove: all of them but
\* those whose unlinkSync throws (ignored).
CatchUnlinked(all, failing) == all \ failing

\* Mutant: an error of the cleanup replaces the error that was caught.
Masked(error, cleanupFailed) ==
    IF cleanupFailed THEN "CleanupFailed" ELSE error

\* throw error (164): the error that was caught, whatever the cleanup did
Propagated(error, cleanupFailed) == error

\* if (existsSync) { readdirSync; unlinkSync each; rmdirSync } with every
\* error swallowed, then throw error.
Thrown(r, rec, e, exists, dfiles, budget) ==
    LET all == DOMAIN dfiles
        done(gone, failed, ex, used) ==
            Outcome(Mark([rec EXCEPT !.pc = "thrown", !.cause = e,
                                     !.err = Propagated(e, ex),
                                     !.kept = @ \cup failed],
                         "deleted", OthersImages(r, dfiles, gone) # {}),
                    ex, Restrict(dfiles, all \ gone), used)
    IN  IF ~exists THEN {done({}, {}, FALSE, 0)}
        ELSE \* every unlinkSync succeeds or those of S throw; then rmdirSync,
             \* which throws on a directory that is not empty
             {done(CatchUnlinked(all, S), S,
                   all \ CatchUnlinked(all, S) # {}, Cardinality(S)) :
                 S \in UpTo(all, budget)}
             \cup
             \* rmdirSync throws on the emptied directory, or readdirSync
             \* throws and nothing is unlinked
             (IF budget > 0
              THEN {done(CatchUnlinked(all, {}), {}, TRUE, 1),
                    done({}, all, TRUE, 1)}
              ELSE {})

(* ------------------- pdfToTextOCR, lines 15 to 57 --------------------- *)

Budget == MaxFaults - faults

\* if (!fs.existsSync(tempDir)) fs.mkdirSync(tempDir), then pdfinfo is
\* started.  mkdirSync may throw.
Called(r, rec, exists, dfiles, budget) ==
    {Outcome([rec EXCEPT !.pc = "pdfinfo"], TRUE, dfiles, 0)}
    \cup (IF exists THEN {}
          ELSE Thrown(r, rec, "IoError", FALSE, dfiles, budget))

\* pdfToTextOCR is called, and runs to its first await.
Start(r) ==
    /\ run[r].pc = "idle"
    /\ \E o \in Called(r, run[r], dirExists, dirFiles, Budget) : Apply(r, o)

\* pageCountMatch ? parseInt(pageCountMatch[1]) : 0
PageCount(matched, pages) == IF matched THEN pages ELSE 0

\* Mutant: a page count of zero is let through.
ZeroPagesAllowed(pageCount) == FALSE

\* if (pageCount === 0)
NoPages(pageCount) == pageCount = 0

\* Mutant: the limit check rejects a document of exactly 30 pages.
OverLimitOffByOne(pageCount) == pageCount >= PAGE_LIMIT

\* if (pageCount > 30)
OverLimit(pageCount) == pageCount > PAGE_LIMIT

\* pdfinfo settles: it rejects, or its output has a Pages: line or none.
\* Lines 27 to 46, up to the start of pdftoppm.
PdfinfoSettles(r) ==
    /\ run[r].pc = "pdfinfo"
    /\ \E o \in
         Thrown(r, run[r], "PdfinfoFailed", dirExists, dirFiles, Budget)
         \cup UNION {
            LET pageCount == PageCount(matched, run[r].pages)
                rec == [run[r] EXCEPT !.pageCount = pageCount]
            IN  IF NoPages(pageCount)
                THEN Thrown(r, rec, "NoPageCount", dirExists, dirFiles, Budget)
                ELSE IF OverLimit(pageCount)
                THEN Thrown(r, rec, "PageLimit", dirExists, dirFiles, Budget)
                ELSE {Outcome([rec EXCEPT !.pc = "pdftoppm", !.raster = @ + 1],
                              dirExists, dirFiles, 0)}
            : matched \in BOOLEAN } :
         Apply(r, o)

\* How a rasterizer names its files: the page number padded with zeros, as
\* pdftoppm does, the page number as it is, or a letter.
Namings == {"padded", "plain", "letters"}

\* The files pdftoppm writes for the first j pages of an n-page document.
Rasterized(r, j, n, naming) ==
    LET name(k) == IF naming = "letters" THEN LetterName(k)
                   ELSE IF naming = "plain" THEN Digits(k)
                   ELSE PageName(k, n)
        names == {name(k) : k \in 1..j}
    IN  [nm \in names |->
            [by |-> r, page |-> CHOOSE k \in 1..j : name(k) = nm]]

\* The directory after new files are written over it.
Written(dfiles, new) == new @@ dfiles

\* fs.readdirSync(tempDir).filter(...)
Listed(dfiles) == {n \in DOMAIN dfiles : IsPageImage(n)}

\* The comparator throws on a name without digits: null[0].
SortThrows(names) ==
    Cardinality(names) >= 2 /\ \E n \in names : MatchDigits(n) = <<>>

\* Mutant: the names are compared as strings, character by character.
CompareLexical(a, b) ==
    LET before(x, y) ==
            \E k \in 1..(Min(Len(x), Len(y)) + 1) :
                /\ \A j \in 1..(k - 1) : x[j] = y[j]
                /\ \/ k > Len(x) /\ k <= Len(y)
                   \/ k <= Len(x) /\ k <= Len(y) /\ x[k] < y[k]
    IN  IF before(a, b) THEN -1 ELSE IF before(b, a) THEN 1 ELSE 0

\* (a, b) => numA - numB
Compare(a, b) == FileNum(a) - FileNum(b)

\* .sort(comparator): the orders a stable sort can give, the order readdirSync
\* lists the names in not being fixed.
RECURSIVE Sorted(_)
Sorted(names) ==
    IF names = {} THEN {<<>>}
    ELSE UNION {{<<x>> \o rest : rest \in Sorted(names \ {x})} :
                x \in {y \in names : \A z \in names : Compare(y, z) <= 0}}

\* Mutant: a result is labelled with its index in the batch.
BatchIndexOnly(i, batchIndex) == batchIndex

\* const globalIndex = i + batchIndex
GlobalIndex(i, batchIndex) == i + batchIndex

\* A promise of a recognition task: where it is, the image it read, the text
\* it returns, its worker (0 standing for none), what worker.recognize gave
\* ("none", "text" or "error") and how the last worker.terminate() a task
\* awaited on its own worker settled ("none", "resolved" or "rejected").
NoTask == [st |-> "none", index |-> -1, image |-> NoImage, text |-> <<>>,
           ok |-> FALSE, worker |-> 0, recognized |-> "none",
           terminate |-> "none"]

(* ---------------------- the worker pool, 63 to 81 --------------------- *)

\* The try block is entered once the pool is full.
PoolFull(workers) == Len(workers) >= BATCH_SIZE


\* files.slice(from, to), as the positions from+1 .. of the sequence
Slice(files, from, to) == SubSeq(files, from + 1, Min(to, Len(files)))

\* fs.rmdirSync(tempDir) inside try/catch (123-128, 158): the directory
\* after it, [exists, used]; it throws on a missing or non-empty directory.
Rmdir(exists, dfiles, budget) ==
    IF exists /\ DOMAIN dfiles = {}
    THEN {[exists |-> FALSE, used |-> 0, threw |-> FALSE]}
         \cup (IF budget > 0
               THEN {[exists |-> TRUE, used |-> 1, threw |-> TRUE]} ELSE {})
    ELSE {[exists |-> exists, used |-> 0, threw |-> TRUE]}

\* Mutant: the error of rmdirSync is thrown on.
RmdirRethrown(threw) == threw

\* catch (e) { console.warn(...) } (126-128): the error of rmdirSync ends
\* there.
RmdirFatal(threw) == FALSE

\* Lines 119 to 142: sort, join, rmdirSync, clean, writeFileSync, return.
Finish(r, rec, exists, dfiles, budget) ==
    UNION {
        LET cleanedText == CleanText(FullText(rec.results))
        IN  IF RmdirFatal(d.threw)
            THEN {[o EXCEPT !.used = @ + d.used] :
                    o \in Thrown(r, rec, "RmdirFailed", d.exists, dfiles,
                                 budget - d.used)}
            ELSE
            {Outcome([rec EXCEPT !.pc = "returned", !.written = TRUE,
                                 !.ret = [text |-> cleanedText,
                                          pageCount |-> Len(rec.files)]],
                     d.exists, dfiles, d.used)}
            \cup \* writeFileSync throws
            {[o EXCEPT !.used = @ + d.used] :
                o \in Thrown(r, rec, "IoError", d.exists, dfiles,
                             budget - d.used)}
        : d \in Rmdir(exists, dfiles, budget) }

\* The end of the finally block (107-117): the pending exception goes on to
\* the catch block, or the function goes on to line 119.
AfterFinally(r, rec, exists, dfiles, budget) ==
    IF rec.pend # "none"
    THEN Thrown(r, rec, rec.pend, exists, dfiles, budget)
    ELSE Finish(r, rec, exists, dfiles, budget)

\* The finally block: for (const worker of workers) await worker.terminate()
Finally(r, rec, exists, dfiles, budget) ==
    IF rec.workers = <<>>
    THEN AfterFinally(r, rec, exists, dfiles, budget)
    ELSE {Outcome([rec EXCEPT !.pc = "terminate", !.t = 1], exists, dfiles, 0)}

\* Mutant: processPageOCRWithWorker rethrows, and its promise rejects.
Rethrown(task) == [task EXCEPT !.st = "rejected", !.text = <<>>, !.ok = FALSE]

\* processPageOCRWithWorker's catch: return {index, text: ''}
Caught(task) == [task EXCEPT !.st = "settled", !.text = <<>>, !.ok = FALSE]

\* return {index, text}
Recognized(task) ==
    [task EXCEPT !.st = "settled", !.text = OcrText(task.image), !.ok = TRUE,
                 !.recognized = "text"]

\* Mutant: every slot of a batch is given the first worker of the pool.
FirstWorker(workers, batchIndex) ==
    IF workers # <<>> THEN workers[1] ELSE 0

\* const worker = workers[batchIndex], 0 standing for undefined
WorkerAt(workers, batchIndex) ==
    IF batchIndex + 1 <= Len(workers) THEN workers[batchIndex + 1] ELSE 0

\* batch.map(...): each call of processPageOCRWithWorker runs to its first
\* await: readFileSync, which may throw, then worker.recognize is started.
Launch(r, rec, exists, dfiles, budget) ==
    LET batch == Slice(rec.files, rec.i, rec.i + BATCH_SIZE)
        at(b) == rec.i + b
        readable == {b \in 0..(Len(batch) - 1) :
                        exists /\ batch[b + 1] \in DOMAIN dfiles}
        started(b, bad) ==
            LET call == [NoTask EXCEPT
                            !.index = GlobalIndex(rec.i, b),
                            !.worker = WorkerAt(rec.workers, b)]
            IN  IF b \notin readable \/ b \in bad \/ call.worker = 0
                THEN Caught(call)
                ELSE [call EXCEPT !.st = "inflight",
                                  !.image = dfiles[batch[b + 1]]]
    IN  {Outcome(
            Mark([rec EXCEPT
                    !.pc = "batch",
                    !.task = [p \in DOMAIN rec.task |->
                                IF p \in {at(b) : b \in 0..(Len(batch) - 1)}
                                THEN started(p - rec.i, bad) ELSE rec.task[p]]],
                 "recognized",
                 \E b \in readable \ bad : dfiles[batch[b + 1]].by \in Runs \ {r}),
            exists, dfiles, Cardinality(bad))
         : bad \in UpTo(readable, budget)}

\* Mutant: after the last batch the function goes on to line 119 without
\* the finally block.
LoopThenFinish(r, rec, exists, dfiles, budget) ==
    IF rec.i < Len(rec.files)
    THEN Launch(r, rec, exists, dfiles, budget)
    ELSE AfterFinally(r, rec, exists, dfiles, budget)

\* for (let i = 0; i < files.length; i += BATCH_SIZE) { ... } finally
Loop(r, rec, exists, dfiles, budget) ==
    IF rec.i < Len(rec.files)
    THEN Launch(r, rec, exists, dfiles, budget)
    ELSE Finally(r, rec, exists, dfiles, budget)

\* createWorker settles (67-69).
CreateWorkerSettles(r) ==
    /\ run[r].pc = "createWorker"
    /\ \E o \in
         {Outcome([run[r] EXCEPT !.pc = "setParameters", !.made = @ + 1],
                  dirExists, dirFiles, 0)}
         \cup Thrown(r, run[r], "WorkerFailed", dirExists, dirFiles, Budget) :
         Apply(r, o)

\* worker.setParameters settles (70-80): workers.push(worker), then the next
\* createWorker, or the try block with the first batch.
SetParametersSettles(r) ==
    /\ run[r].pc = "setParameters"
    /\ \E o \in
         (LET rec == [run[r] EXCEPT !.workers = Append(@, run[r].made)]
          IN  IF PoolFull(rec.workers)
              THEN Loop(r, rec, dirExists, dirFiles, Budget)
              ELSE {Outcome([rec EXCEPT !.pc = "createWorker"],
                            dirExists, dirFiles, 0)})
         \cup Thrown(r, run[r], "WorkerFailed", dirExists, dirFiles, Budget) :
         Apply(r, o)

(* ----------------------- the batches, 84 to 106 ----------------------- *)

\* The positions of the batch the loop is at.
BatchAt(rec) == rec.i .. (Min(rec.i + BATCH_SIZE, Len(rec.files)) - 1)

InFlight(rec) == {p \in DOMAIN rec.task : rec.task[p].st = "inflight"}

\* worker.recognize settles for the page at position p (183-199).
TaskSettles(r, p) ==
    /\ p \in InFlight(run[r])
    /\ \E t \in {Recognized(run[r].task[p])}
               \cup (IF Budget > 0
                     THEN {Caught([run[r].task[p] EXCEPT !.recognized = "error"])}
                     ELSE {}) :
         /\ run' = [run EXCEPT
                ![r].task[p] = t,
                ![r].ooo = @ \/ \E q \in InFlight(run[r]) : q < p]
         /\ faults' = faults + (IF t.ok THEN 0 ELSE 1)
    /\ UNCHANGED <<dirExists, dirFiles, norm, req>>

\* Mutant: the batch's promises are not awaited.
NotAwaited(sts) == "fulfilled"

\* Mutant: Promise.any, fulfilled as soon as one promise is.
PromiseAny(sts) == IF "settled" \in sts THEN "fulfilled" ELSE "pending"

\* Mutant: a promise that never settles.
PromiseNever(sts) == "pending"

\* Promise.all(batchPromises): pending until every promise is fulfilled,
\* rejected as soon as one is.
PromiseAll(sts) ==
    IF "rejected" \in sts THEN "rejected"
    ELSE IF sts \subseteq {"settled"} THEN "fulfilled"
    ELSE "pending"

\* Mutant: the batch's files are not unlinked.
BatchUnlinkedNothing(there, failing) == {}

\* Mutant: only one file of the batch is unlinked.
BatchUnlinkedOne(there, failing) ==
    IF there \ failing = {} THEN {}
    ELSE {CHOOSE n \in there \ failing : TRUE}

\* The files the batch's unlinkSync calls remove: those of the batch that
\* are there, but those whose unlinkSync throws (ignored).
BatchUnlinked(there, failing) == there \ failing

\* i += BATCH_SIZE
NextBatch(i) == i + BATCH_SIZE

\* await Promise.all settles (95-106): the results are pushed in the order
\* of the promises, the batch's files are unlinked, and the loop goes on.
BatchSettles(r) ==
    LET rec == run[r]
        batch == Slice(rec.files, rec.i, rec.i + BATCH_SIZE)
        all == PromiseAll({rec.task[p].st : p \in BatchAt(rec)})
        batchResults == [b \in 1..Len(batch) |->
                            [index |-> rec.task[rec.i + b - 1].index,
                             text |-> rec.task[rec.i + b - 1].text]]
        there == IF dirExists
                 THEN {batch[b] : b \in 1..Len(batch)} \cap DOMAIN dirFiles
                 ELSE {}
    IN  /\ rec.pc = "batch"
        /\ all # "pending"
        /\ \E o \in
             IF all = "rejected"
             THEN Finally(r, [rec EXCEPT !.pend = "RecognitionFailed"],
                          dirExists, dirFiles, Budget)
             ELSE UNION {
                LET gone == BatchUnlinked(there, S)
                    dfiles == Restrict(dirFiles, DOMAIN dirFiles \ gone)
                    next == Mark([rec EXCEPT
                                    !.results = @ \o batchResults,
                                    !.i = NextBatch(@),
                                    !.kept = @ \cup S],
                                 "deleted",
                                 OthersImages(r, dirFiles, gone) # {})
                IN  {[o EXCEPT !.used = @ + Cardinality(S)] :
                        o \in Loop(r, next, dirExists, dfiles,
                                   Budget - Cardinality(S))}
                : S \in UpTo(there, Budget) } :
             Apply(r, o)

(* --------------------- the finally block, 107 to 117 ------------------ *)

\* worker.terminate() settles: resolved, or thrown and ignored.
TerminateSettles(r) ==
    LET rec == run[r]
    IN  /\ rec.pc = "terminate"
        /\ \E ok \in {TRUE} \cup (IF Budget > 0 THEN {FALSE} ELSE {}) :
            LET used == IF ok THEN 0 ELSE 1
                after == IF ok THEN [rec EXCEPT !.dead = @ \cup {rec.workers[rec.t]}]
                         ELSE rec
            IN  \E o \in
                  IF rec.t < Len(rec.workers)
                  THEN {Outcome([after EXCEPT !.t = @ + 1], dirExists, dirFiles, used)}
                  ELSE {[x EXCEPT !.used = @ + used] :
                          x \in AfterFinally(r, after, dirExists, dirFiles,
                                             Budget - used)} :
                  Apply(r, o)

(* ------- the per-page-worker variant (part_000, 59-84, 144-201) ------- *)

\* The positions of the batch the per-page-worker loop is at.
BatchAtPerPage(rec) ==
    rec.i .. (Min(rec.i + BATCH_SIZE_PER_PAGE, Len(rec.files)) - 1)

\* The tasks whose worker.recognize has not settled (171).
Recognizing(rec) == {p \in DOMAIN rec.task : rec.task[p].st = "recognize"}

\* return {index, text: ''} (196-199)
Empty(task) == [task EXCEPT !.st = "settled", !.text = <<>>, !.ok = FALSE]

\* Mutant: the catch block returns without terminating the worker.
CaughtLeaks(task) == Empty(task)

\* processPageOCR's catch (183-200): if (worker) await worker.terminate(),
\* then the empty text is returned.
CaughtPerPage(task) ==
    IF task.worker # 0 THEN [task EXCEPT !.st = "cleanup"] ELSE Empty(task)

\* batch.map(...) (67-71): each call of processPageOCR runs to its first
\* await: readFileSync, which may throw, then createWorker is started.
LaunchPerPage(r, rec, exists, dfiles, budget) ==
    LET batch == Slice(rec.files, rec.i, rec.i + BATCH_SIZE_PER_PAGE)
        at(b) == rec.i + b
        readable == {b \in 0..(Len(batch) - 1) :
                        exists /\ batch[b + 1] \in DOMAIN dfiles}
        started(b, bad) ==
            LET call == [NoTask EXCEPT !.index = GlobalIndex(rec.i, b)]
            IN  IF b \notin readable \/ b \in bad
                THEN CaughtPerPage(call)
                ELSE [call EXCEPT !.st = "createWorker",
                                  !.image = dfiles[batch[b + 1]]]
    IN  {Outcome(
            Mark([rec EXCEPT
                    !.pc = "batchPerPage",
                    !.task = [p \in DOMAIN rec.task |->
                                IF p \in {at(b) : b \in 0..(Len(batch) - 1)}
                                THEN started(p - rec.i, bad) ELSE rec.task[p]]],
                 "recognized",
                 \E b \in readable \ bad : dfiles[batch[b + 1]].by \in Runs \ {r}),
            exists, dfiles, Cardinality(bad))
         : bad \in UpTo(readable, budget)}

\* for (let i = 0; i < files.length; i += BATCH_SIZE) { ... } (63-84), then
\* lines 86 to 111.
LoopPerPage(r, rec, exists, dfiles, budget) ==
    IF rec.i < Len(rec.files)
    THEN LaunchPerPage(r, rec, exists, dfiles, budget)
    ELSE Finish(r, rec, exists, dfiles, budget)

\* A step of the task at position p: its promise and the run's workers
\* after it, a swallowed fault injected when the awaited call rejected.
TaskStep(r, p, task, made, dead, rejected) ==
    /\ run' = [run EXCEPT ![r].task[p] = task, ![r].made = made,
                          ![r].dead = dead]
    /\ faults' = faults + (IF rejected THEN 1 ELSE 0)
    /\ UNCHANGED <<dirExists, dirFiles, norm, req>>

\* The ways an awaited call of a task settles: resolved, or rejected.
Settlings == {TRUE} \cup (IF Budget > 0 THEN {FALSE} ELSE {})

\* createWorker settles in the task at position p (153-156).
TaskCreateWorkerSettles(r, p) ==
    LET rec == run[r]
        task == rec.task[p]
    IN  /\ task.st = "createWorker"
        /\ \E ok \in Settlings :
             IF ok
             THEN TaskStep(r, p, [task EXCEPT !.st = "setParameters",
                                              !.worker = p + 1],
                           rec.made + 1, rec.dead, FALSE)
             ELSE TaskStep(r, p, CaughtPerPage(task), rec.made, rec.dead, TRUE)

\* worker.setParameters settles in the task at position p (159-171).
TaskSetParametersSettles(r, p) ==
    LET rec == run[r]
        task == rec.task[p]
    IN  /\ task.st = "setParameters"
        /\ \E ok \in Settlings :
             TaskStep(r, p,
                      IF ok THEN [task EXCEPT !.st = "recognize"]
                      ELSE CaughtPerPage(task),
                      rec.made, rec.dead, ~ok)

\* worker.recognize settles in the task at position p (171-176).
TaskRecognizeSettles(r, p) ==
    LET rec == run[r]
        task == rec.task[p]
    IN  /\ task.st = "recognize"
        /\ \E ok \in Settlings :
             TaskStep(r, p,
                      IF ok THEN [task EXCEPT !.st = "terminate",
                                              !.text = OcrText(task.image),
                                              !.recognized = "text"]
                      ELSE CaughtPerPage([task EXCEPT !.recognized = "error"]),
                      rec.made, rec.dead, ~ok)

\* worker.terminate() of line 176 settles in the task at position p: the
\* text is returned, or the rejection is caught at line 183.
TaskTerminateSettles(r, p) ==
    LET rec == run[r]
        task == rec.task[p]
    IN  /\ task.st = "terminate"
        /\ \E ok \in Settlings :
             IF ok
             THEN TaskStep(r, p, [task EXCEPT !.st = "settled", !.ok = TRUE,
                                              !.terminate = "resolved"],
                           rec.made, rec.dead \cup {task.worker}, FALSE)
             ELSE TaskStep(r, p,
                           CaughtPerPage([task EXCEPT !.terminate = "rejected"]),
                           rec.made, rec.dead, TRUE)

\* worker.terminate() of line 189 settles in the task at position p: its
\* rejection is ignored, and the empty text is returned.
TaskCleanupSettles(r, p) ==
    LET rec == run[r]
        task == rec.task[p]
    IN  /\ task.st = "cleanup"
        /\ \E ok \in Settlings :
             IF ok
             THEN TaskStep(r, p, Empty([task EXCEPT !.terminate = "resolved"]),
                           rec.made, rec.dead \cup {task.worker}, FALSE)
             ELSE TaskStep(r, p, Empty([task EXCEPT !.terminate = "rejected"]),
                           rec.made, rec.dead, TRUE)

\* i += BATCH_SIZE (63)
NextBatchPerPage(i) == i + BATCH_SIZE_PER_PAGE

\* await Promise.all settles (73-84): the results are pushed in the order of
\* the promises, the batch's files are unlinked, and the loop goes on.
BatchSettlesPerPage(r) ==
    LET rec == run[r]
        batch == Slice(rec.files, rec.i, rec.i + BATCH_SIZE_PER_PAGE)
        all == PromiseAll({rec.task[p].st : p \in BatchAtPerPage(rec)})
        batchResults == [b \in 1..Len(batch) |->
                            [index |-> rec.task[rec.i + b - 1].index,
                             text |-> rec.task[rec.i + b - 1].text]]
        there == IF dirExists
                 THEN {batch[b] : b \in 1..Len(batch)} \cap DOMAIN dirFiles
                 ELSE {}
    IN  /\ rec.pc = "batchPerPage"
        /\ all # "pending"
        /\ \E o \in
             IF all = "rejected"
             THEN Thrown(r, rec, "RecognitionFailed", dirExists, dirFiles, Budget)
             ELSE UNION {
                LET gone == BatchUnlinked(there, S)
                    dfiles == Restrict(dirFiles, DOMAIN dirFiles \ gone)
                    next == Mark([rec EXCEPT
                                    !.results = @ \o batchResults,
                                    !.i = NextBatchPerPage(@),
                                    !.kept = @ \cup S],
                                 "deleted",
                                 OthersImages(r, dirFiles, gone) # {})
                IN  {[o EXCEPT !.used = @ + Cardinality(S)] :
                        o \in LoopPerPage(r, next, dirExists, dfiles,
                                          Budget - Cardinality(S))}
                : S \in UpTo(there, Budget) } :
             Apply(r, o)

(* --------------------------- rasterization ---------------------------- *)

\* pdftoppm settles.  It rejects after writing some pages, or resolves: then
\* lines 49 to 67 list and sort the files and start the first createWorker;
\* the per-page-worker variant goes to its batch loop (part_000, 63).
PdftoppmSettles(r) ==
    /\ run[r].pc = "pdftoppm"
    /\ \E o \in
         UNION {Thrown(r, run[r], "PdftoppmFailed", dirExists,
                       IF dirExists
                       THEN Written(dirFiles, Rasterized(r, j, run[r].pages, "padded"))
                       ELSE dirFiles, Budget)
                : j \in {0, run[r].pages}}
         \cup (IF ~dirExists THEN {} ELSE UNION {
            LET dfiles == Written(dirFiles,
                                  Rasterized(r, j, run[r].pages, naming))
                listed == Listed(dfiles)
                rec == Mark(run[r], "listed",
                            OthersImages(r, dfiles, listed) # {})
            IN  IF SortThrows(listed)
                THEN Thrown(r, rec, "TypeError", TRUE, dfiles, Budget)
                ELSE UNION {
                    LET listing == [rec EXCEPT
                                      !.files = files,
                                      !.task = [k \in 0..(Len(files) - 1) |-> NoTask]]
                    IN  IF rec.perPage
                        THEN LoopPerPage(r, listing, TRUE, dfiles, Budget)
                        ELSE {Outcome([listing EXCEPT !.pc = "createWorker"],
                                      TRUE, dfiles, 0)}
                    : files \in Sorted(listed)}
            : j \in {0, run[r].pages}, naming \in Namings }) :
         Apply(r, o)

(* --------------------------- specifications --------------------------- *)

\* tempDir as a run finds it: absent, empty, or left behind with a file.
Leftovers ==
    {[exists |-> FALSE, files |-> NoFiles],
     [exists |-> TRUE, files |-> NoFiles],
     [exists |-> TRUE, files |-> (<<0, 7>> :> OldImage)],
     [exists |-> TRUE, files |-> (JunkName :> NoImage)]}

\* One run, of a document of 0 to MaxPages pages or of one page too many.
Init ==
    /\ \E n \in (0..MaxPages) \cup {PAGE_LIMIT + 1} :
         run = [r \in Runs |->
                  IF r = "A" THEN FreshRun(n, "idle") ELSE FreshRun(0, "off")]
    /\ \E d \in Leftovers : dirExists = d.exists /\ dirFiles = d.files
    /\ faults = 0
    /\ norm = NoText
    /\ req = [r \in Runs |-> NoRequest]

Next ==
    \E r \in Runs :
        \/ Start(r)
        \/ PdfinfoSettles(r)
        \/ PdftoppmSettles(r)
        \/ CreateWorkerSettles(r)
        \/ SetParametersSettles(r)
        \/ \E p \in DOMAIN run[r].task : TaskSettles(r, p)
        \/ BatchSettles(r)
        \/ TerminateSettles(r)

Spec == Init /\ [][Next]_vars

\* One run of a document at the page limit or next to it, with no swallowed
\* fault left to inject.
InitLimit ==
    /\ \E n \in {1, PAGE_LIMIT, PAGE_LIMIT + 1} :
         run = [r \in Runs |->
                  IF r = "A" THEN FreshRun(n, "idle") ELSE FreshRun(0, "off")]
    /\ \E d \in Leftovers : dirExists = d.exists /\ dirFiles = d.files
    /\ faults = MaxFaults
    /\ norm = NoText
    /\ req = [r \in Runs |-> NoRequest]

SpecLimit == InitLimit /\ [][Next]_vars

\* Two runs that overlap, as two POST /extract-text requests make them, of
\* documents of one or two pages, with no swallowed fault left to inject.
InitConcurrent ==
    /\ \E a, b \in 1..2 :
         run = [r \in Runs |-> FreshRun(IF r = "A" THEN a ELSE b, "idle")]
    /\ dirExists = FALSE
    /\ dirFiles = NoFiles
    /\ faults = MaxFaults
    /\ norm = NoText
    /\ req = [r \in Runs |-> NoRequest]

SpecConcurrent == InitConcurrent /\ [][Next]_vars

\* One run of either variant: of a document of 0 to 2 pages with swallowed
\* faults to inject, or of one page more than the larger batch with none.
InitVariants ==
    /\ \E n \in {0, 1, 2, BATCH_SIZE_PER_PAGE + 1}, perPage \in BOOLEAN :
         /\ run = [r \in Runs |->
                     IF r # "A" THEN FreshRun(0, "off")
                     ELSE IF perPage THEN FreshPerPage(n, "idle")
                     ELSE FreshRun(n, "idle")]
         /\ faults = IF n > 2 THEN MaxFaults ELSE 0
    /\ dirExists = FALSE
    /\ dirFiles = NoFiles
    /\ norm = NoText
    /\ req = [r \in Runs |-> NoRequest]

NextVariants ==
    \/ Next
    \/ \E r \in Runs :
        \/ \E p \in DOMAIN run[r].task : TaskCreateWorkerSettles(r, p)
        \/ \E p \in DOMAIN run[r].task : TaskSetParametersSettles(r, p)
        \/ \E p \in DOMAIN run[r].task : TaskRecognizeSettles(r, p)
        \/ \E p \in DOMAIN run[r].task : TaskTerminateSettles(r, p)
        \/ \E p \in DOMAIN run[r].task : TaskCleanupSettles(r, p)
        \/ BatchSettlesPerPage(r)

SpecVariants == InitVariants /\ [][NextVariants]_vars

\* One run of a document of no page, of one page, of two batches or of one
\* page too many, with one swallowed fault left to inject.
InitFair ==
    /\ \E n \in {0, 1, BATCH_SIZE + 1, PAGE_LIMIT + 1} :
         run = [r \in Runs |->
                  IF r = "A" THEN FreshRun(n, "idle") ELSE FreshRun(0, "off")]
    /\ dirExists = FALSE
    /\ dirFiles = NoFiles
    /\ faults = MaxFaults - 1
    /\ norm = NoText
    /\ req = [r \in Runs |-> NoRequest]

\* Every external call a run awaits settles: pdfinfo, pdftoppm, createWorker,
\* setParameters, the recognitions of a batch, and terminate each call
\* back; the synchronous code of a run is run once it is called.
Fairness ==
    \A r \in Runs :
        /\ WF_vars(Start(r))
        /\ WF_vars(PdfinfoSettles(r))
        /\ WF_vars(PdftoppmSettles(r))
        /\ WF_vars(CreateWorkerSettles(r))
        /\ WF_vars(SetParametersSettles(r))
        /\ WF_vars(\E p \in DOMAIN run[r].task : TaskSettles(r, p))
        /\ WF_vars(BatchSettles(r))
        /\ WF_vars(TerminateSettles(r))

SpecFair == InitFair /\ [][Next]_vars /\ Fairness

(* ------------------- the server of POST /extract-text ----------------- *)

\* pdfToTextOCR has returned or thrown.
Done(rec) == rec.pc \in {"returned", "thrown"}

\* The phrase the handler looks for in the message of an error.
LimitPhrase == "Maximum allowed is 30 pages"

\* error.message, as the phrases it is made of:
\* `PDF has ${pageCount} pages. Maximum allowed is 30 pages.`
Message(e) ==
    IF e = "PageLimit"
    THEN <<"PDF has ", "pageCount", " pages. ", LimitPhrase, ".">>
    ELSE IF e = "NoPageCount"
    THEN <<"Could not determine page count from PDF">>
    ELSE <<e>>

\* message.includes(phrase)
Includes(message, phrase) == \E k \in 1..Len(message) : message[k] = phrase

\* Mutant: the handler never recognizes the page-limit error.
NeverMentionsLimit(message) == FALSE

\* error.message.includes('Maximum allowed is 30 pages')
MentionsLimit(message) == Includes(message, LimitPhrase)

\* res.status(status).json({success, error, message}) and, on success,
\* res.json({success: true, pageCount, text}); "none" is a field left out.
Response(status, success, error, message) ==
    [status |-> status, success |-> success, error |-> error,
     message |-> message, pageCount |-> -1, text |-> <<>>]

NoError == [multer |-> FALSE, code |-> "none", message |-> <<>>]

\* new multer.MulterError(code)
MulterError(code) == [multer |-> TRUE, code |-> code, message |-> <<code>>]

\* fileFilter: cb(null, true), or cb(new Error('Only PDF files are
\* allowed'), false): the error handed to cb, NoError standing for null.
FileFilter(mimetype) ==
    IF mimetype = "application/pdf" THEN NoError
    ELSE [multer |-> FALSE, code |-> "Error",
          message |-> <<"Only PDF files are allowed">>]

\* upload.single('pdf') with limits.fileSize and fileFilter: the error it
\* hands to next, and whether it has set req.file.
UploadSingle(q) ==
    IF q.field = "none" THEN [error |-> NoError, file |-> FALSE]
    ELSE IF q.field # "pdf"
    THEN [error |-> MulterError("LIMIT_UNEXPECTED_FILE"), file |-> FALSE]
    ELSE IF FileFilter(q.mimetype) # NoError
    THEN [error |-> FileFilter(q.mimetype), file |-> FALSE]
    ELSE IF q.size > FILE_SIZE_LIMIT
    THEN [error |-> MulterError("LIMIT_FILE_SIZE"), file |-> FALSE]
    ELSE [error |-> NoError, file |-> TRUE]

\* app.use((error, req, res, next) => ...): the response it sends.
ErrorMiddleware(error) ==
    IF error.multer
    THEN IF error.code = "LIMIT_FILE_SIZE"
         THEN Response(400, "none", "File too large",
                       <<"Maximum file size is 50MB">>)
         ELSE Response(400, "none", "Upload error", error.message)
    ELSE Response(500, "none", "Internal server error", error.message)

\* The responses of the handler's catch block (107-120).
CatchResponse(e) ==
    IF MentionsLimit(Message(e))
    THEN Response(400, "false", "PDF exceeds page limit", Message(e))
    ELSE Response(500, "false", "Failed to process PDF", Message(e))

\* What a step of the handler leaves: the response sent, the two files,
\* the files whose unlinkSync threw and was logged only.
Handled(resp, uploaded, output, kept) ==
    [resp |-> resp, uploaded |-> uploaded, output |-> output,
     kept |-> kept, used |-> Cardinality(kept)]

\* Mutant: the catch block unlinks the uploaded file only.
HandlerUnlinkedUpload(there, failing) == (there \ failing) \cap {"uploaded"}

\* The files the catch block's unlinkSync calls remove (92-105): those
\* that exist, but those whose unlinkSync throws.
HandlerUnlinked(there, failing) == there \ failing

\* The handler's catch block (88-121): both files are unlinked, an error
\* of unlinkSync being logged only, and the response is sent.
Catch(e, uploaded, output, budget) ==
    LET there == (IF uploaded THEN {"uploaded"} ELSE {})
                 \cup (IF output THEN {"output"} ELSE {})
    IN  {Handled(CatchResponse(e),
                 "uploaded" \in there \ HandlerUnlinked(there, S),
                 "output" \in there \ HandlerUnlinked(there, S), S)
         : S \in UpTo(there, budget)}

\* Lines 69 to 86, after pdfToTextOCR has returned result: the output is
\* read and both files are unlinked, each of which may throw, and the
\* text is sent.
Extracted(result, output, budget) ==
    Catch("ReadFailed", TRUE, output, budget)
    \cup Catch("UnlinkFailed", TRUE, output, budget)
    \cup (IF output THEN Catch("UnlinkFailed", FALSE, TRUE, budget) ELSE {})
    \cup (IF output
          THEN {Handled([Response(200, "true", "none", <<>>) EXCEPT
                            !.pageCount = result.pageCount,
                            !.text = result.text],
                        FALSE, FALSE, {})}
          ELSE {})

\* upload.single('pdf') settles: it hands its error to the error handling
\* middleware, or goes on to the handler.
Multer(r) ==
    /\ req[r].pc = "received"
    /\ LET up == UploadSingle(req[r])
       IN  req' = [req EXCEPT
                     ![r] = IF up.error # NoError
                            THEN [@ EXCEPT !.pc = "done",
                                    !.sent = Append(@, ErrorMiddleware(up.error))]
                            ELSE [@ EXCEPT !.pc = "handler",
                                           !.uploaded = up.file]]
    /\ UNCHANGED <<run, dirExists, dirFiles, faults, norm>>

\* The handler, lines 49 to 66: without req.file it answers 400, with it
\* it calls pdfToTextOCR, which runs to its first await.
ExtractText(r) ==
    /\ req[r].pc = "handler"
    /\ IF ~req[r].uploaded
       THEN /\ req' = [req EXCEPT
                        ![r].pc = "done",
                        ![r].sent =
                           Append(@, Response(400, "none", "No PDF file uploaded",
                                     <<"Please upload a PDF file using the pdf field">>))]
            /\ UNCHANGED <<run, dirExists, dirFiles, faults>>
       ELSE /\ req' = [req EXCEPT ![r].pc = "awaiting"]
            /\ \E o \in Called(r, [run[r] EXCEPT !.pc = "idle"],
                                dirExists, dirFiles, Budget) : ApplyRun(r, o)
    /\ UNCHANGED norm

\* await pdfToTextOCR(...) settles (66): lines 69 to 86, or the catch block.
ExtractTextResumes(r) ==
    /\ req[r].pc = "awaiting"
    /\ Done(run[r])
    /\ \E h \in IF run[r].pc = "returned"
                 THEN Extracted(run[r].ret, run[r].written, Budget)
                 ELSE Catch(run[r].err, req[r].uploaded, run[r].written, Budget) :
         /\ req' = [req EXCEPT ![r].pc = "done",
                               ![r].sent = Append(@, h.resp),
                               ![r].uploaded = h.uploaded,
                               ![r].output = h.output,
                               ![r].kept = h.kept]
         /\ faults' = faults + h.used
    /\ UNCHANGED <<run, dirExists, dirFiles, norm>>

\* The uploads the server is sent: no file part, a file part in another
\* field, or a file in the field pdf, of a type and a size in megabytes.
Requests ==
    {[NoRequest EXCEPT !.pc = "received"],
     [NoRequest EXCEPT !.pc = "received", !.field = "doc",
                       !.mimetype = "application/pdf", !.size = 1]}
    \cup {[NoRequest EXCEPT !.pc = "received", !.field = "pdf",
                            !.mimetype = m, !.size = z] :
            m \in {"application/pdf", "text/plain"},
            z \in {1, FILE_SIZE_LIMIT, FILE_SIZE_LIMIT + 1}}

\* Two requests, each with an upload of a document of one page or of one
\* page too many, with no swallowed fault left to inject.
InitServer ==
    /\ \E a, b \in {1, PAGE_LIMIT + 1} :
         run = [r \in Runs |-> FreshRun(IF r = "A" THEN a ELSE b, "off")]
    /\ dirExists = FALSE
    /\ dirFiles = NoFiles
    /\ faults = MaxFaults
    /\ norm = NoText
    /\ req \in [Runs -> Requests]

NextServer ==
    \E r \in Runs :
        \/ Multer(r)
        \/ ExtractText(r)
        \/ PdfinfoSettles(r)
        \/ PdftoppmSettles(r)
        \/ CreateWorkerSettles(r)
        \/ SetParametersSettles(r)
        \/ \E p \in DOMAIN run[r].task : TaskSettles(r, p)
        \/ BatchSettles(r)
        \/ TerminateSettles(r)
        \/ ExtractTextResumes(r)

SpecServer == InitServer /\ [][NextServer]_vars

\* One request, with an upload of a document of one page or of one page
\* too many, and swallowed faults to inject.
InitUpload ==
    /\ \E a \in {1, PAGE_LIMIT + 1} :
         run = [r \in Runs |-> FreshRun(IF r = "A" THEN a ELSE 0, "off")]
    /\ dirExists = FALSE
    /\ dirFiles = NoFiles
    /\ faults = 0
    /\ norm = NoText
    /\ \E q \in Requests :
         req = [r \in Runs |-> IF r = "A" THEN q ELSE NoRequest]

SpecUpload == InitUpload /\ [][NextServer]_vars

(* ------------------- the normalization on its own --------------------- *)

\* The characters of the texts normalized: the whitespace of /\s/ that the
\* recognizer writes, and a character that is not whitespace.
Chars == Whitespace \cup {"a"}

\* The texts of at most n characters.
Texts(n) == UNION {[1..k -> Chars] : k \in 0..n}

\* fullText is normalized: cleanedText (131).
Clean ==
    /\ norm.pc = "fullText"
    /\ norm' = [norm EXCEPT !.pc = "cleanedText",
                            !.cleanedText = CleanText(norm.fullText)]
    /\ UNCHANGED <<run, dirExists, dirFiles, faults, req>>

\* The normalization is applied to its own output.
CleanAgain ==
    /\ norm.pc = "cleanedText"
    /\ norm' = [norm EXCEPT !.pc = "again",
                            !.again = CleanText(norm.cleanedText)]
    /\ UNCHANGED <<run, dirExists, dirFiles, faults, req>>

InitText ==
    /\ run = [r \in Runs |-> FreshRun(0, "off")]
    /\ dirExists = FALSE
    /\ dirFiles = NoFiles
    /\ faults = 0
    /\ req = [r \in Runs |-> NoRequest]
    /\ \E x \in Texts(MaxLen) : norm = [NoText EXCEPT !.pc = "fullText",
                                                      !.fullText = x]

NextText == Clean \/ CleanAgain

SpecText == InitText /\ [][NextText]_vars

(* ------------------------------- claims -------------------------------- *)

\* The number of the batch a position of files belongs to.
BatchNo(p) == p \div BATCH_SIZE

\* The page images in tempDir that are run r's: those it rasterized and
\* those it listed.
ImagesOf(r) ==
    {n \in DOMAIN dirFiles :
        /\ IsPageImage(n)
        /\ \/ dirFiles[n].by = r
           \/ \E k \in 1..Len(run[r].files) : run[r].files[k] = n}

\* C1: a reported page count above 30 ends the run with the page-limit
\* error before pdftoppm is ever started; a page count of 30 or less is not
\* rejected by the limit check, and pdftoppm is started for it.
C1_PageLimit ==
    \A r \in Runs :
        /\ run[r].pageCount > PAGE_LIMIT =>
              run[r].pc = "thrown" /\ run[r].err = "PageLimit" /\ run[r].raster = 0
        /\ run[r].pageCount \in 1..PAGE_LIMIT =>
              run[r].err # "PageLimit" /\ run[r].raster = 1

C1_Witness ==
    \E r \in Runs :
        /\ run[r].pageCount = PAGE_LIMIT + 1
        /\ run[r].pc = "thrown" /\ run[r].err = "PageLimit" /\ run[r].raster = 0

\* C2: the text a run returns is the cleaned, space-joined concatenation of
\* what each page's task produced, taken by position in the file list, in
\* whatever order the tasks of a batch settled.
C2_IndexOrder ==
    \A r \in Runs :
        run[r].pc = "returned" =>
            run[r].ret.text =
                CleanText(JoinSpace([k \in 1..Len(run[r].files) |->
                                        run[r].task[k - 1].text]))

C2_Witness ==
    \E r \in Runs :
        /\ run[r].pc = "returned" /\ run[r].ooo
        /\ Len(run[r].files) > BATCH_SIZE
        /\ \A p \in DOMAIN run[r].task : run[r].task[p].ok

\* C3: a page whose read or recognition throws never fails the run: it is
\* recorded with the empty text at its own index, and every other page is
\* still launched, settles and contributes the text read on its image; no
\* more pages are empty than faults were injected.
C3_PageFailureIsolated ==
    \A r \in Runs :
        /\ run[r].err # "RecognitionFailed" /\ run[r].pend = "none"
        /\ run[r].pc = "returned" =>
            LET sorted == SortByIndex(run[r].results)
            IN  /\ Len(sorted) = Len(run[r].files)
                /\ \A p \in DOMAIN run[r].task :
                    /\ run[r].task[p].st = "settled"
                    /\ sorted[p + 1] =
                         [index |-> p,
                          text |-> IF run[r].task[p].ok
                                   THEN OcrText(run[r].task[p].image) ELSE <<>>]
                /\ Cardinality({p \in DOMAIN run[r].task : ~run[r].task[p].ok})
                      <= faults

C3_Witness ==
    \E r \in Runs :
        /\ run[r].pc = "returned" /\ Len(run[r].files) > BATCH_SIZE
        /\ ~run[r].task[0].ok
        /\ run[r].task[1].ok /\ run[r].task[1].image.page = 2
        /\ run[r].task[BATCH_SIZE].ok

C6_WorkersReleased ==
    \A r \in Runs :
        Done(run[r]) => \A w \in 1..run[r].made : w \in run[r].dead

C10_ExclusiveDirectory ==
    \A r \in Runs : run[r].foreign = {}

\* C11: no two recognition tasks of a run that are in flight hold the same
\* worker of the pool, and each task in flight holds a worker of the pool.
C11_WorkerExclusive ==
    \A r \in Runs : \A p, q \in InFlight(run[r]) :
        /\ \E k \in 1..Len(run[r].workers) :
              run[r].task[p].worker = run[r].workers[k]
        /\ p # q => run[r].task[p].worker # run[r].task[q].worker

C11_Witness ==
    \E r \in Runs :
        /\ Len(run[r].files) > BATCH_SIZE
        /\ run[r].task[BATCH_SIZE].st = "inflight"
        /\ run[r].task[0].ok
        /\ run[r].task[BATCH_SIZE].worker = run[r].task[0].worker

\* C12: when a run has thrown, the error thrown is the error the catch
\* block caught; tempDir is gone, unless a step of the cleanup threw: then
\* every file still in tempDir is one whose deletion threw.
C12_CleanupThenOriginalError ==
    \A r \in Runs :
        run[r].pc = "thrown" =>
            /\ run[r].cause # "none" /\ run[r].err = run[r].cause
            /\ dirExists =>
                  /\ faults > 0
                  /\ DOMAIN dirFiles \subseteq run[r].kept

C12_Witness ==
    \E r \in Runs :
        /\ run[r].pc = "thrown" /\ run[r].err = "WorkerFailed"
        /\ dirExists /\ DOMAIN dirFiles # {}
        /\ DOMAIN dirFiles \subseteq run[r].kept
        /\ Len(run[r].files) > Cardinality(DOMAIN dirFiles)

\* C13: a run whose pdfinfo call rejected, printed no Pages: line or
\* reported zero pages has thrown, with the error of pdfinfo or the
\* page-count error, without having started pdftoppm or created a worker;
\* it returns nothing and writes no output.  Until pdfinfo has reported a
\* page count above zero, pdftoppm is not started and no worker is created.
C13_NoPageCountFailsEarly ==
    \A r \in Runs :
        /\ (run[r].pageCount = 0 \/ run[r].cause = "PdfinfoFailed") =>
              /\ run[r].pc = "thrown"
              /\ run[r].err \in {"NoPageCount", "PdfinfoFailed"}
              /\ run[r].pageCount = 0 => run[r].err = "NoPageCount"
        /\ (run[r].pages = 0 \/ run[r].pageCount <= 0) =>
              /\ run[r].raster = 0 /\ run[r].made = 0
              /\ run[r].pc # "returned" /\ ~run[r].written
              /\ run[r].ret.pageCount = -1

C13_Witness ==
    \E r \in Runs :
        /\ run[r].pages > 0 /\ run[r].pageCount = 0
        /\ run[r].pc = "thrown" /\ run[r].err = "NoPageCount"
        /\ run[r].raster = 0 /\ run[r].made = 0

\* C14: a run whose pdftoppm call produced no page image throws: no run
\* returns, or writes its output, with an empty list of page images.
C14_NoImagesNoResult ==
    \A r \in Runs :
        (run[r].raster = 1 /\ run[r].pc \notin {"pdftoppm", "thrown"}
            /\ run[r].files = <<>>)
          => run[r].pc # "returned" /\ ~run[r].written

\* C15: the pageCount a run returns, when every recognition task of the
\* run succeeded, is the page count pdfinfo reported for the document.
C15_PageCountIsReported ==
    \A r \in Runs :
        (run[r].pc = "returned"
            /\ \A p \in DOMAIN run[r].task : run[r].task[p].ok)
          => run[r].ret.pageCount = run[r].pageCount

\* C16: the normalized text holds no line break and no two spaces in a row,
\* and neither starts nor ends with a whitespace character.
C16_NormalForm ==
    norm.pc \in {"cleanedText", "again"} =>
        LET out == norm.cleanedText
        IN  /\ \A k \in 1..Len(out) : out[k] \notin {"\n", "\r"}
            /\ \A k \in 1..(Len(out) - 1) : ~(out[k] = " " /\ out[k + 1] = " ")
            /\ out # <<>> =>
                  out[1] \notin Whitespace /\ out[Len(out)] \notin Whitespace

C16_Witness ==
    /\ norm.pc = "cleanedText"
    /\ norm.fullText = <<" ", "a", "\n", "\n", "a">>
    /\ norm.cleanedText = <<"a", " ", "a">>

\* C17: normalizing a normalized text gives the same text.
C17_Idempotent ==
    norm.pc = "again" => norm.again = norm.cleanedText

C17_Witness ==
    /\ norm.pc = "again"
    /\ norm.fullText = <<"a", "\t", " ", "\n", "a">>
    /\ norm.cleanedText # norm.fullText
    /\ norm.again = <<"a", " ", "a">>

\* C18: a request whose file was accepted is sent at most one response,
\* none while pdfToTextOCR is awaited and exactly one once the handler is
\* done; when pdfToTextOCR threw the page-limit error the response is 400
\* with error "PDF exceeds page limit", and when it threw any other error
\* the response is 500 with success false and the message of that error.
C18_FailureResponses ==
    \A r \in Runs :
        req[r].uploaded \/ req[r].pc \in {"awaiting", "done"} =>
            /\ Len(req[r].sent) = (IF req[r].pc = "done" THEN 1 ELSE 0)
            /\ (req[r].pc = "done" /\ run[r].pc = "thrown") =>
                  LET res == req[r].sent[1]
                  IN  IF run[r].err = "PageLimit"
                      THEN /\ res.status = 400
                           /\ res.error = "PDF exceeds page limit"
                      ELSE /\ res.status = 500
                           /\ res.success = "false"
                           /\ res.message = Message(run[r].err)
                           /\ res.message # <<>>

C18_Witness ==
    \E r, q \in Runs :
        /\ req[r].pc = "done" /\ run[r].err = "PageLimit"
        /\ req[r].sent[1].status = 400
        /\ req[q].pc = "done" /\ run[q].err = "WorkerFailed"
        /\ req[q].sent[1].status = 500

\* C19: a request with no file part, with a file that is not
\* application/pdf or with a file above 50 MB never has pdfToTextOCR
\* called, and the response it is sent has status 400.
C19_RejectedUploads ==
    \A r \in Runs :
        (\/ req[r].field = "none" /\ req[r].pc # "off"
         \/ req[r].field = "pdf" /\ req[r].mimetype # "application/pdf"
         \/ req[r].field = "pdf" /\ req[r].size > FILE_SIZE_LIMIT) =>
            /\ run[r].pc = "off"
            /\ \A k \in 1..Len(req[r].sent) : req[r].sent[k].status = 400

\* C20: a run's file list holds only names that pdftoppm gives to pages of
\* the run's own document, no task of the run reads an image that an
\* earlier run left in tempDir, and the pageCount the run returns is not
\* above the number of pages of its document.
C20_OnlyCurrentDocument ==
    \A r \in Runs :
        /\ \A k \in 1..Len(run[r].files) :
              run[r].files[k] \in
                  UNION {DOMAIN Rasterized(r, run[r].pages, run[r].pages, naming)
                         : naming \in Namings}
        /\ \A p \in DOMAIN run[r].task : run[r].task[p].image # OldImage
        /\ run[r].pc = "returned" => run[r].ret.pageCount <= run[r].pages

\* C22: a run that listed a file name without digits does not go on to
\* recognize it and never returns: every name in the file list of a run
\* has digits.
C22_NoDigitsFails ==
    \A r \in Runs : \A k \in 1..Len(run[r].files) :
        MatchDigits(run[r].files[k]) # <<>>

\* C23: the file list of a run is in the order of the numbers that the
\* first run of digits of each name reads as, and the task of a page has
\* for index the position of its file in that list and reads the image of
\* that file.
C23_NumericOrder ==
    \A r \in Runs :
        /\ \A k, l \in 1..Len(run[r].files) :
              k < l => FileNum(run[r].files[k]) <= FileNum(run[r].files[l])
        /\ \A p \in DOMAIN run[r].task :
              /\ run[r].task[p].st # "none" => run[r].task[p].index = p
              /\ (run[r].task[p].image # NoImage
                    /\ MatchDigits(run[r].files[p + 1]) # <<>>)
                   => run[r].task[p].image.page = FileNum(run[r].files[p + 1])

C23_Witness ==
    \E r \in Runs :
        /\ Len(run[r].files) >= 10
        /\ run[r].files[2] = <<2>> /\ run[r].files[10] = <<1, 0>>
        /\ run[r].task[9].st = "settled" /\ run[r].task[9].index = 9
        /\ run[r].task[9].image.page = 10

\* C24: no run throws the error of the rmdirSync of line 125: a run whose
\* batches are done and whose workers are terminated throws only if
\* writeFileSync throws, and otherwise returns, with the output written,
\* whether tempDir was removed or not.
C24_RmdirBestEffort ==
    \A r \in Runs :
        /\ run[r].err # "RmdirFailed"
        /\ (run[r].pc = "thrown" /\ run[r].t > 0
               /\ run[r].t = Len(run[r].workers))
             => run[r].err = "IoError"
        /\ run[r].pc = "returned" =>
              /\ run[r].written
              /\ run[r].ret.pageCount = Len(run[r].files)

C24_Witness ==
    \E r \in Runs :
        /\ run[r].pc = "returned" /\ run[r].written
        /\ dirExists
        /\ run[r].i >= Len(run[r].files) /\ Len(run[r].files) > BATCH_SIZE
        /\ run[r].ret.pageCount = Len(run[r].files)
        /\ run[r].ret.text # <<>>

\* C26: when every call a run awaits settles, a run that was called
\* returns or throws in the end; a run that has returned has been through
\* every batch, with every task settled; and as long as a recognition of a
\* run has not settled, the run stays at the await of its batch, neither
\* returned nor thrown.
C26_Completes ==
    /\ \A r \in Runs : (run[r].pc = "idle") ~> Done(run[r])
    /\ [](\A r \in Runs :
            /\ run[r].pc = "returned" =>
                  /\ run[r].i >= Len(run[r].files)
                  /\ \A p \in DOMAIN run[r].task : run[r].task[p].st = "settled"
            /\ InFlight(run[r]) # {} => run[r].pc = "batch")

C26_Witness ==
    \E r \in Runs :
        /\ run[r].pc = "returned"
        /\ Len(run[r].files) > BATCH_SIZE
        /\ run[r].i >= Len(run[r].files)

\* C27: the output file of a run is written only when the run returns: a
\* run that has thrown has written nothing, and a run that has written has
\* been through every batch, with every task settled, has asked every
\* worker of the pool to terminate, and has written the normalized text.
C27_OutputWrittenLast ==
    \A r \in Runs :
        /\ run[r].pc = "thrown" => ~run[r].written
        /\ run[r].written =>
              /\ run[r].pc = "returned"
              /\ run[r].i >= Len(run[r].files)
              /\ \A p \in DOMAIN run[r].task : run[r].task[p].st = "settled"
              /\ Len(run[r].workers) = BATCH_SIZE
              /\ run[r].t = Len(run[r].workers)
              /\ run[r].ret.text = CleanText(FullText(run[r].results))

C27_Witness ==
    \E r \in Runs :
        /\ run[r].pc = "thrown" /\ run[r].err = "WorkerFailed"
        /\ Len(run[r].files) > BATCH_SIZE
        /\ ~run[r].written

C21_VariantsEquivalent ==
    \A r \in Runs :
        /\ run[r].pc = "returned" =>
            run[r].ret =
                [text |-> CleanText(JoinSpace(
                              [k \in 1..Len(run[r].files) |->
                                  IF run[r].task[k - 1].recognized = "text"
                                  THEN OcrText(run[r].task[k - 1].image)
                                  ELSE <<>>])),
                 pageCount |-> Len(run[r].files)]
        /\ Cardinality(InFlight(run[r])) <= BATCH_SIZE
        /\ Cardinality(Recognizing(run[r])) <= BATCH_SIZE_PER_PAGE

====
